---- MODULE Spec2Model ----
(***************************************************************************)
(* A model of the pytest-zigzag plugin (src/pytest_zigzag/__init__.py):    *)
(* the option resolver, the credential check, the config file loader, the  *)
(* session hooks that upload the results and report on the terminal, and   *)
(* the per-test hooks that skip the later steps of a stepped test case.    *)
(***************************************************************************)
EXTENDS Integers, Sequences, FiniteSets, TLC

VARIABLES
    config,            \* the host's Config: per option name, its CLI flag and ini key
    option_name,       \* resolver run: the name looked up
    resolved,          \* resolver run: the outcome of _get_option_of_highest_precedence
    token,             \* credential run: the string handed to _validate_qtest_token
    validated,         \* credential run: what it returned
    config_file,       \* loader run: the path handed to _load_config_file
    disk,              \* loader run: what open()/read() of that path gives
    loaded,            \* loader run: the outcome of _load_config_file
    session,           \* the running session: plugins, _xml add-on, os.environ
    SESSION_MESSAGES,  \* the process-wide message buffer
    warned,            \* the warnings the latest pytest_configure emitted
    finish,            \* the latest pytest_sessionfinish: how it ended, what it did
    written,           \* the lines the latest pytest_terminal_summary wrote
    items,             \* the collected test items, in running order
    idx,               \* the item the run loop is at
    pc,                \* the phase of the runtest protocol the run loop is at
    call,              \* the CallInfo of the phase that just ran
    previousfailed,    \* per parent container: its _previousfailed attribute
    user_properties,   \* per item: its user_properties list
    hist               \* per item: what happened to it (observation only)

resolverVars == <<option_name, resolved>>
tokenVars    == <<token, validated>>
loaderVars   == <<config_file, disk, loaded>>
hookVars     == <<session, SESSION_MESSAGES, warned, finish, written>>
stepVars     == <<items, idx, pc, call, previousfailed, user_properties, hist>>
vars == <<config, resolverVars, tokenVars, loaderVars, hookVars, stepVars>>

(***************************************************************************)
(* Python values: None, booleans and strings, and their truth value.       *)
(***************************************************************************)
PyNone    == [t |-> "None", v |-> ""]
PyTrue    == [t |-> "bool", v |-> "True"]
PyFalse   == [t |-> "bool", v |-> "False"]
PyStr(s)  == [t |-> "str", v |-> s]

Truthy(x) ==
    CASE x.t = "None" -> FALSE
      [] x.t = "bool" -> x.v = "True"
      [] OTHER        -> x.v # ""

\* a or b
PyOr(a, b) == IF Truthy(a) THEN a ELSE b

(***************************************************************************)
(* The host's option registry.  A source (a CLI flag or an ini key) is     *)
(* registered or not; a registered source was given by the user or holds   *)
(* its default.                                                            *)
(***************************************************************************)
Unregistered == [reg |-> FALSE, given |-> FALSE, val |-> PyNone]
Default(d)   == [reg |-> TRUE, given |-> FALSE, val |-> d]
Given(x)     == [reg |-> TRUE, given |-> TRUE, val |-> x]

\* The names pytest_addoption registers, and a name nobody has to register.
PluginOptions == {"zigzag", "qtest-project-id", "pytest-config"}
OptionNames   == PluginOptions \cup {"report-dir"}

\* parser.addoption(...): what config.getoption can hold for each flag.
CliSources(name) ==
    CASE name = "zigzag" ->
            {Default(PyFalse), Given(PyTrue)}
      [] name = "qtest-project-id" ->
            {Default(PyNone), Given(PyStr("")), Given(PyStr("42")), Given(PyStr("7"))}
      [] name = "pytest-config" ->
            {Default(PyNone), Given(PyStr("cli.json"))}
      [] OTHER ->
            {Unregistered, Default(PyNone), Given(PyStr("out"))}

\* parser.addini(...): what config.getini can hold for each key.
IniSources(name) ==
    CASE name = "zigzag" ->
            {Default(PyFalse), Given(PyFalse), Given(PyTrue)}
      [] name = "qtest-project-id" ->
            {Default(PyStr("")), Given(PyStr("")), Given(PyStr("42")), Given(PyStr("7"))}
      [] name = "pytest-config" ->
            {Default(PyStr("")), Given(PyStr("ini.json"))}
      [] OTHER ->
            {Unregistered, Default(PyStr("")), Given(PyStr("ini-out"))}

Sources(name) == [cli : CliSources(name), ini : IniSources(name)]

\* A Config that holds z, q, p, r for the four option names.
ConfigOf(z, q, p, r) ==
    [n \in OptionNames |->
        CASE n = "zigzag"           -> z
          [] n = "qtest-project-id" -> q
          [] n = "pytest-config"    -> p
          [] OTHER                  -> r]

\* Every command line and ini file the resolver can meet.
Configs ==
    {ConfigOf(z, q, p, r) : z \in Sources("zigzag"), q \in Sources("qtest-project-id"),
                            p \in Sources("pytest-config"), r \in Sources("report-dir")}

\* Those a session is configured with: the two upload options vary.
UploadConfigs ==
    {ConfigOf(z, q, [cli |-> Default(PyNone), ini |-> Default(PyStr(""))],
              [cli |-> Unregistered, ini |-> Unregistered]) :
        z \in Sources("zigzag"),
        q \in [cli : {Default(PyNone), Given(PyStr("")), Given(PyStr("42"))},
               ini : {Default(PyStr("")), Given(PyStr("7"))}]}

\* config.getoption("--name") and config.getini(name): the value, or ValueError.
Lookup(src) ==
    IF src.reg THEN [exc |-> "none", val |-> src.val]
               ELSE [exc |-> "ValueError", val |-> PyNone]

getoption(cfg, name) == Lookup(cfg[name].cli)
getini(cfg, name)    == Lookup(cfg[name].ini)

(***************************************************************************)
(* _get_option_of_highest_precedence (lines 80-104).  The outcome is the   *)
(* value returned, or the exception that left the function.                *)
(***************************************************************************)
Returns(x) == [raised |-> "none", value |-> x]
Raises(e)  == [raised |-> e, value |-> PyNone]

\* Variant: the ini value takes precedence over the CLI value.
IniBeforeCli(cfg, name) ==
    LET o == getoption(cfg, name)
        i == getini(cfg, name)
        cli_option == IF o.exc = "ValueError" THEN PyNone ELSE o.val
        ini_option == IF i.exc = "ValueError" THEN PyNone ELSE i.val
    IN  Returns(PyOr(ini_option, cli_option))

\* Variant: the ValueError of config.getini is not handled.
IniLookupUnhandled(cfg, name) ==
    LET o == getoption(cfg, name)
        i == getini(cfg, name)
        cli_option == IF o.exc = "ValueError" THEN PyNone ELSE o.val
    IN  IF i.exc = "ValueError" THEN Raises("ValueError")
        ELSE Returns(PyOr(cli_option, i.val))

_get_option_of_highest_precedence(cfg, name) ==
    LET o == getoption(cfg, name)
        i == getini(cfg, name)
        cli_option == IF o.exc = "ValueError" THEN PyNone ELSE o.val
        ini_option == IF i.exc = "ValueError" THEN PyNone ELSE i.val
    IN  Returns(PyOr(cli_option, ini_option))

(***************************************************************************)
(* _validate_qtest_token (lines 107-108).  A string is a sequence of       *)
(* one-character strings.                                                  *)
(***************************************************************************)
Lower == {"a","b","c","d","e","f","g","h","i","j","k","l","m",
          "n","o","p","q","r","s","t","u","v","w","x","y","z"}
Upper == {"A","B","C","D","E","F","G","H","I","J","K","L","M",
          "N","O","P","Q","R","S","T","U","V","W","X","Y","Z"}
Digit == {"0","1","2","3","4","5","6","7","8","9"}

\* the character class [a-zA-Z0-9]
AlnumClass == Lower \cup Upper \cup Digit

\* re's `$` without MULTILINE: at the end of the string, or just before a
\* newline that is the last character of the string.
DollarAt(s, k) ==
    \/ k = Len(s)
    \/ k = Len(s) - 1 /\ s[Len(s)] = "\n"

\* re.match("^[a-zA-Z0-9]+$", s): some k >= 1 leading characters of the class,
\* then `$`.
ReMatch(s) ==
    \E k \in 1..Len(s) :
        /\ \A j \in 1..k : s[j] \in AlnumClass
        /\ DollarAt(s, k)

_validate_qtest_token(s) == IF ReMatch(s) THEN s ELSE <<>>

(***************************************************************************)
(* The config file (lines 111-138).  A JSON value is an object with        *)
(* members, a string or a number; open()/read() and json.loads either      *)
(* give one or raise.                                                      *)
(***************************************************************************)
JObj(m) == [type |-> "object", members |-> m]
JStr    == [type |-> "string", members |-> <<>>]
JNum    == [type |-> "number", members |-> <<>>]
JArr    == [type |-> "array", members |-> <<>>]

EnvNames == {"BUILD_URL", "JOB_NAME", "NODE_NAME"}

\* the mappings of environment variable names to default strings
EnvObjects == {JObj([n \in d |-> JStr]) : d \in SUBSET EnvNames}

Documents ==
    {JObj("environment_variables" :> e) : e \in EnvObjects}
    \cup {JObj(<<>>), JObj("variables" :> JObj(<<>>)), JArr, JStr,
          JObj("environment_variables" :> JStr),
          JObj("environment_variables" :> JObj("BUILD_URL" :> JNum))}

\* data/schema/pytest-zigzag-config.schema.json: the document is an object,
\* `environment_variables` is required, and maps names to strings.
SchemaError(doc) ==
    IF doc.type # "object" THEN "is not of type 'object'"
    ELSE IF "environment_variables" \notin DOMAIN doc.members
         THEN "'environment_variables' is a required property"
    ELSE LET env == doc.members["environment_variables"]
         IN  IF env.type # "object" THEN "is not of type 'object'"
             ELSE IF \E k \in DOMAIN env.members : env.members[k].type # "string"
                  THEN "is not of type 'string'"
             ELSE ""

Paths == {"./pytest_zigzag/data/configs/default-config.json", "cli.json", "ini.json"}

\* What reading and parsing a path gives: OSError/IOError from open() or
\* read(), ValueError from loads(), or the parsed document.
Unreadable(cause) == [exc |-> "OSError", cause |-> cause, doc |-> JArr]
Garbled(cause)    == [exc |-> "ValueError", cause |-> cause, doc |-> JArr]
Parsed(doc)       == [exc |-> "none", cause |-> "", doc |-> doc]

Disks ==
    {Unreadable(c) : c \in {"[Errno 2] No such file or directory",
                            "[Errno 13] Permission denied"}}
    \cup {Garbled(c) : c \in {"Expecting value: line 1 column 1 (char 0)",
                              "Extra data: line 2 column 1 (char 3)"}}
    \cup {Parsed(d) : d \in Documents}

\* pytest.exit(msg, returncode): the process ends; nothing is returned.
Exit(msg, returncode) ==
    [exited |-> TRUE, returncode |-> returncode, msg |-> msg, value |-> JArr]
Return(value) ==
    [exited |-> FALSE, returncode |-> 0, msg |-> <<>>, value |-> value]

\* Variant: the document is returned without being validated.
LoadWithoutValidation(path, d) ==
    IF d.exc = "OSError"
    THEN Exit(<<"Failed to load '", path, "' config file!">>, 1)
    ELSE IF d.exc = "ValueError"
    THEN Exit(<<"The '", path, "' config file is not valid JSON: ", d.cause>>, 1)
    ELSE Return(d.doc)

\* A message is the sequence of the pieces str.format puts together.
_load_config_file(path, d) ==
    IF d.exc = "OSError"
    THEN Exit(<<"Failed to load '", path, "' config file!">>, 1)
    ELSE IF d.exc = "ValueError"
    THEN Exit(<<"The '", path, "' config file is not valid JSON: ", d.cause>>, 1)
    ELSE IF SchemaError(d.doc) # ""
    THEN Exit(<<"Config file '", path, "' does not comply with schema: ",
                SchemaError(d.doc)>>, 1)
    ELSE Return(d.doc)

(***************************************************************************)
(* SessionMessages (pytest_zigzag/session_messages.py): an ordered buffer  *)
(* of strings with append, drain and iteration in insertion order.         *)
(***************************************************************************)
append(buf, message) == Append(buf, message)
drain(buf)           == [returned |-> buf, left |-> <<>>]
Iterate(buf)         == buf

(***************************************************************************)
(* Exceptions: the class, whether `except Exception` matches it, str(e).   *)
(***************************************************************************)
Exc(cls, base, text) == [cls |-> cls, base |-> base, text |-> text]
NoExc == Exc("", "", "")

NoXmlError     == Exc("AttributeError", "Exception",
                      "'NoneType' object has no attribute 'logfile'")
NoLogfileError == Exc("AttributeError", "Exception",
                      "'LogXML' object has no attribute 'logfile'")
NoTokenError   == Exc("KeyError", "Exception", "'QTEST_API_TOKEN'")
Boom           == Exc("RuntimeError", "Exception", "boom")
Interrupt      == Exc("KeyboardInterrupt", "BaseException", "")

\* What the upload library does when it is used: the constructor raises, or
\* upload_test_results raises, or it returns a job id.
JobIds == {"99", "7"}
LibBehaviours ==
    {[ctor |-> Boom, upload |-> NoExc, job |-> ""]}
    \cup {[ctor |-> NoExc, upload |-> e, job |-> ""] : e \in {Boom, Interrupt}}
    \cup {[ctor |-> NoExc, upload |-> NoExc, job |-> j] : j \in JobIds}

\* A session of the host: whether the junitxml plugin is registered, the
\* config's _xml add-on (absent, without a logfile, or its logfile path) and
\* os.environ's QTEST_API_TOKEN.
Tokens == {<<"a", "7">>, <<"a", "-">>}
Environs == {[set |-> FALSE, value |-> <<>>]} \cup {[set |-> TRUE, value |-> t] : t \in Tokens}
Sessions ==
    [started : {TRUE}, junitxml : {TRUE}, xml : {"absent", "nologfile", "junit.xml"},
     environ : Environs]
    \cup [started : {TRUE}, junitxml : {FALSE}, xml : {"junit.xml"},
          environ : {[set |-> TRUE, value |-> <<"a", "7">>]}]
NoSession ==
    [started |-> FALSE, junitxml |-> FALSE, xml |-> "absent",
     environ |-> [set |-> FALSE, value |-> <<>>]]

ZZ_WARN_MESSAGE ==
    "ZigZag will not attempt upload, '--zigzag' and '--qtest-project-id' must be specified together."

SuccessNotice    == <<"ZigZag upload was successful!">>
JobLine(job_id)  == <<"Queue Job ID: ", job_id>>
FailureNotice    == <<"The ZigZag upload was not successful">>
OriginalError(e) == <<"Original error message:\n\n", e.text>>

\* Variant: the buffer is not drained.
BufferKept(buf) == buf

\* line 153: the buffer after SESSION_MESSAGES.drain()
BufferAtEntry(buf) == drain(buf).left

\* Variant: either option enables the upload.
UploadEnabledByEither(zz_option, qtest_project_id) ==
    Truthy(zz_option) \/ Truthy(qtest_project_id)

\* line 157: if zz_option and qtest_project_id
UploadEnabled(zz_option, qtest_project_id) ==
    Truthy(zz_option) /\ Truthy(qtest_project_id)

\* Variant: only the missing credential is handled.
CaughtKeyError(e) == e.cls = "KeyError"

\* line 167: except Exception as e
Caught(e) == e.base = "Exception"

\* Variant: the job line is appended first.
JobLineFirst(job_id) == <<JobLine(job_id), SuccessNotice>>

\* lines 165-166: the two appends after a successful upload
SuccessMessages(job_id) == <<SuccessNotice, JobLine(job_id)>>

\* lines 168-169: the two appends of the handler
FailureMessages(e) == <<FailureNotice, OriginalError(e)>>

\* lines 159-164: the statements of the try block up to the upload call; the
\* exception that ends them (or NoExc), the job id, and how the library was used.
TryUpload(sess, qtest_project_id, lib) ==
    LET unused == [exc |-> NoExc, job |-> "", constructed |-> <<>>, uploads |-> 0] IN
    IF sess.xml = "absent" THEN [unused EXCEPT !.exc = NoXmlError]
    ELSE IF sess.xml = "nologfile" THEN [unused EXCEPT !.exc = NoLogfileError]
    ELSE IF ~sess.environ.set THEN [unused EXCEPT !.exc = NoTokenError]
    ELSE LET zz == [junit_file_path |-> sess.xml,
                    token |-> _validate_qtest_token(sess.environ.value),
                    project |-> qtest_project_id]
         IN  IF lib.ctor # NoExc
             THEN [unused EXCEPT !.exc = lib.ctor, !.constructed = <<zz>>]
             ELSE [exc |-> lib.upload, job |-> lib.job,
                   constructed |-> <<zz>>, uploads |-> 1]

\* What one invocation of the hook did.
NotFinished ==
    [state |-> "none", drained |-> <<>>, exc |-> NoExc, job |-> "", constructed |-> <<>>,
     uploads |-> 0, appended |-> <<>>]

\* pytest_sessionfinish (lines 144-169) on buffer buf: the buffer it leaves
\* and the record of the invocation.
SessionFinish(buf, cfg, sess, lib) ==
    LET entry == BufferAtEntry(buf)
        zz_option == _get_option_of_highest_precedence(cfg, "zigzag").value
        qtest_project_id == _get_option_of_highest_precedence(cfg, "qtest-project-id").value
        idle == [NotFinished EXCEPT !.state = "returned", !.drained = drain(buf).returned]
    IN  IF ~sess.junitxml \/ ~UploadEnabled(zz_option, qtest_project_id)
        THEN [buffer |-> entry, finish |-> idle]
        ELSE LET t == TryUpload(sess, qtest_project_id, lib)
                 did == [idle EXCEPT !.exc = t.exc, !.constructed = t.constructed,
                                     !.uploads = t.uploads]
             IN  IF t.exc = NoExc
                 THEN [buffer |-> entry \o SuccessMessages(t.job),
                       finish |-> [did EXCEPT !.job = t.job,
                                              !.appended = SuccessMessages(t.job)]]
                 ELSE IF Caught(t.exc)
                 THEN [buffer |-> entry \o FailureMessages(t.exc),
                       finish |-> [did EXCEPT !.appended = FailureMessages(t.exc)]]
                 ELSE [buffer |-> entry, finish |-> [did EXCEPT !.state = "raised"]]

\* line 287: any([zz, qtpid]) and not all([zz, qtpid])
Mismatch(zz, qtpid) ==
    (Truthy(zz) \/ Truthy(qtpid)) /\ ~(Truthy(zz) /\ Truthy(qtpid))

\* lines 176-177: the write_line calls, in the order made
WriteLines(buf) == [n \in 1..Len(Iterate(buf)) |-> Iterate(buf)[n]]

NotWritten == [done |-> FALSE, lines |-> <<>>]

(***************************************************************************)
(* Stepped test cases (lines 31-45, 205-243, 291-302).  An item has a      *)
(* parent, marks, and a name, which is the sequence of its words.          *)
(***************************************************************************)
TEST_STEPS_MARK == "test_case_with_steps"

Item(parent, marks, name) == [parent |-> parent, marks |-> marks, name |-> name]
Mark(name, args)          == [name |-> name, args |-> args]

Parents == {"TestLogin", "TestLogout"}
ItemKinds ==
    {Item("TestLogin", <<Mark(TEST_STEPS_MARK, <<>>)>>, n) :
        n \in {<<"test", "step">>, <<"test", "setup", "env">>, <<"test", "teardown", "env">>}}
    \cup {Item("TestLogout", <<Mark(TEST_STEPS_MARK, <<>>)>>, <<"test", "step">>),
          Item("TestLogin", <<Mark("jira", <<"ASC-123">>)>>, <<"test", "plain">>)}

\* item.keywords: the names of the item's marks and of its parent
keywords(it) == {it.marks[n].name : n \in DOMAIN it.marks} \cup {it.parent}

\* word in item.name
InName(word, it) == \E n \in DOMAIN it.name : it.name[n] = word

\* call.excinfo: None, or the exception the phase raised
NoExcinfo       == [type |-> "None", msg |-> <<>>]
Skipped(msg)    == [type |-> "Skipped", msg |-> msg]
Failed          == [type |-> "AssertionError", msg |-> <<>>]
CallInfo(w, e)  == [when |-> w, excinfo |-> e]
NoCall          == CallInfo("", NoExcinfo)

\* lines 39-45: the properties _capture_marks appends to one item
RECURSIVE MarkArgs(_, _)
MarkArgs(marks, mark_name) ==
    IF marks = <<>> THEN <<>>
    ELSE (IF Head(marks).name = mark_name
          THEN [n \in DOMAIN Head(marks).args |-> <<mark_name, Head(marks).args[n]>>]
          ELSE <<>>) \o MarkArgs(Tail(marks), mark_name)

_capture_marks(it, props) ==
    Append(props, <<"test_step",
                    IF \E n \in DOMAIN it.marks : it.marks[n].name = TEST_STEPS_MARK
                    THEN "true" ELSE "false">>)
    \o MarkArgs(it.marks, "test_id") \o MarkArgs(it.marks, "jira")

\* lines 218-220: the step is skipped because of prev, the parent's
\* _previousfailed (0 when the attribute is not set or None)
SkipsStep(it, prev) ==
    /\ TEST_STEPS_MARK \in keywords(it)
    /\ ~InName("setup", it)
    /\ ~InName("teardown", it)
    /\ prev # 0

\* Variant: only the call phase marks the parent.
MarksParentInCall(it, c) ==
    /\ TEST_STEPS_MARK \in keywords(it)
    /\ c.excinfo # NoExcinfo
    /\ c.when = "call"

\* lines 299-300: the report of this phase marks the parent
MarksParent(it, c) ==
    /\ TEST_STEPS_MARK \in keywords(it)
    /\ c.excinfo # NoExcinfo

\* lines 232-243: the end_time property overwritten, or appended
RECURSIVE LastEndTime(_, _)
LastEndTime(props, n) ==
    IF n = 0 THEN 0
    ELSE IF props[n][1] = "end_time" THEN n
    ELSE LastEndTime(props, n - 1)

SetEndTime(props, now) ==
    LET position == LastEndTime(props, Len(props))
    IN  IF position # 0 THEN [props EXCEPT ![position] = <<"end_time", now>>]
        ELSE Append(props, <<"end_time", now>>)

NoHistory == [skipped_for |-> 0, executed |-> FALSE, failed |-> FALSE]

(***************************************************************************)
(* Bounds of the model.                                                    *)
(***************************************************************************)
MaxTokenLen == 3
NumItems    == 3

TokenAlphabet == {"a", "Z", "7", "-", "\n"}
TokenStrings  == UNION {[1..n -> TokenAlphabet] : n \in 0..MaxTokenLen}

(***************************************************************************)
(* The parts of the state a run does not use stay as they are here.        *)
(***************************************************************************)
IdleConfig ==
    ConfigOf([cli |-> Default(PyFalse), ini |-> Default(PyFalse)],
             [cli |-> Default(PyNone), ini |-> Default(PyStr(""))],
             [cli |-> Default(PyNone), ini |-> Default(PyStr(""))],
             [cli |-> Unregistered, ini |-> Unregistered])

NotResolved  == [done |-> FALSE, raised |-> "none", value |-> PyNone]
NotValidated == [done |-> FALSE, value |-> <<>>]
NotLoaded    == [done |-> FALSE, exited |-> FALSE, returncode |-> 0, msg |-> <<>>,
                 value |-> JArr]

ResolverIdle ==
    /\ option_name = ""
    /\ resolved = NotResolved
TokenIdle ==
    /\ token = <<>>
    /\ validated = NotValidated
LoaderIdle ==
    /\ config_file = ""
    /\ disk = Unreadable("")
    /\ loaded = NotLoaded
HooksIdle ==
    /\ session = NoSession
    /\ SESSION_MESSAGES = <<>>
    /\ warned = <<>>
    /\ finish = NotFinished
    /\ written = NotWritten
StepsIdle ==
    /\ items = <<>>
    /\ idx = 0
    /\ pc = "idle"
    /\ call = NoCall
    /\ previousfailed = [p \in Parents |-> 0]
    /\ user_properties = <<>>
    /\ hist = <<>>

(***************************************************************************)
(* The resolver, applied to any option name under any configuration.       *)
(***************************************************************************)
InitResolver ==
    /\ config \in Configs
    /\ ResolverIdle /\ TokenIdle /\ LoaderIdle /\ HooksIdle /\ StepsIdle

Resolve(name) ==
    /\ ~resolved.done
    /\ option_name' = name
    /\ resolved' = [done |-> TRUE] @@ _get_option_of_highest_precedence(config, name)
    /\ UNCHANGED <<config, tokenVars, loaderVars, hookVars, stepVars>>

NextResolver == \E name \in OptionNames : Resolve(name)

SpecResolver == InitResolver /\ [][NextResolver]_vars

(***************************************************************************)
(* The credential check, applied to any string.                            *)
(***************************************************************************)
InitToken ==
    /\ config = IdleConfig
    /\ token \in TokenStrings
    /\ validated = NotValidated
    /\ ResolverIdle /\ LoaderIdle /\ HooksIdle /\ StepsIdle

Validate ==
    /\ ~validated.done
    /\ validated' = [done |-> TRUE, value |-> _validate_qtest_token(token)]
    /\ UNCHANGED <<config, token, resolverVars, loaderVars, hookVars, stepVars>>

NextToken == Validate

SpecToken == InitToken /\ [][NextToken]_vars

(***************************************************************************)
(* The loader, applied to any path and any content of the disk.            *)
(***************************************************************************)
InitLoader ==
    /\ config = IdleConfig
    /\ config_file \in Paths
    /\ disk \in Disks
    /\ loaded = NotLoaded
    /\ ResolverIdle /\ TokenIdle /\ HooksIdle /\ StepsIdle

LoadConfigFile ==
    /\ ~loaded.done
    /\ loaded' = [done |-> TRUE] @@ _load_config_file(config_file, disk)
    /\ UNCHANGED <<config, config_file, disk, resolverVars, tokenVars, hookVars, stepVars>>

NextLoader == LoadConfigFile

SpecLoader == InitLoader /\ [][NextLoader]_vars

(***************************************************************************)
(* The session hooks.  The host configures a session, and calls the        *)
(* finish hook and the terminal summary hook of the session; one process   *)
(* can run session after session on the same SESSION_MESSAGES.             *)
(***************************************************************************)
Init ==
    /\ config = IdleConfig
    /\ ResolverIdle /\ TokenIdle /\ LoaderIdle /\ HooksIdle /\ StepsIdle

\* pytest_configure (lines 273-288), on the config the host parsed
pytest_configure(cfg, sess) ==
    LET zz    == _get_option_of_highest_precedence(cfg, "zigzag").value
        qtpid == _get_option_of_highest_precedence(cfg, "qtest-project-id").value
    IN  /\ config' = cfg
        /\ session' = sess
        /\ warned' = IF Mismatch(zz, qtpid) THEN <<ZZ_WARN_MESSAGE>> ELSE <<>>
        /\ finish' = NotFinished
        /\ written' = NotWritten
        /\ UNCHANGED <<SESSION_MESSAGES, resolverVars, tokenVars, loaderVars, stepVars>>

\* pytest_sessionfinish (lines 144-169)
pytest_sessionfinish(lib) ==
    LET r == SessionFinish(SESSION_MESSAGES, config, session, lib)
    IN  /\ session.started
        /\ SESSION_MESSAGES' = r.buffer
        /\ finish' = r.finish
        /\ written' = NotWritten
        /\ UNCHANGED <<config, session, warned, resolverVars, tokenVars, loaderVars, stepVars>>

\* pytest_terminal_summary (lines 172-177)
pytest_terminal_summary ==
    /\ session.started
    /\ written' = [done |-> TRUE, lines |-> WriteLines(SESSION_MESSAGES)]
    /\ UNCHANGED <<config, session, SESSION_MESSAGES, warned, finish,
                   resolverVars, tokenVars, loaderVars, stepVars>>

Next ==
    \/ \E cfg \in UploadConfigs, sess \in Sessions : pytest_configure(cfg, sess)
    \/ \E lib \in LibBehaviours : pytest_sessionfinish(lib)
    \/ pytest_terminal_summary

Spec == Init /\ [][Next]_vars

(***************************************************************************)
(* The run loop over the collected items.  The host runs the items in      *)
(* their order; for each one the setup phase, the call phase if setup      *)
(* raised nothing, and the teardown phase, and after each phase the        *)
(* makereport hook with the phase's CallInfo.                              *)
(***************************************************************************)
InitSteps ==
    /\ config = IdleConfig
    /\ ResolverIdle /\ TokenIdle /\ LoaderIdle /\ HooksIdle
    /\ items \in [1..NumItems -> ItemKinds]
    /\ idx = 0
    /\ pc = "collect"
    /\ call = NoCall
    /\ previousfailed = [p \in Parents |-> 0]
    /\ user_properties = [n \in 1..NumItems |-> <<>>]
    /\ hist = [n \in 1..NumItems |-> NoHistory]

\* pytest_collection_modifyitems (lines 195-202)
pytest_collection_modifyitems ==
    /\ pc = "collect"
    /\ user_properties' = [n \in 1..NumItems |-> _capture_marks(items[n], user_properties[n])]
    /\ pc' = "setup"
    /\ idx' = 1
    /\ UNCHANGED <<config, items, call, previousfailed, hist,
                   resolverVars, tokenVars, loaderVars, hookVars>>

\* pytest_runtest_setup (lines 205-221), the first of the setup hooks; `rest`
\* is what the setup hooks after it raise when this one raises nothing.
pytest_runtest_setup(rest) ==
    /\ pc = "setup" /\ idx \in 1..NumItems /\ call = NoCall
    /\ LET item == items[idx]
           previous == previousfailed[item.parent]
       IN  /\ user_properties' =
                  [user_properties EXCEPT ![idx] =
                      @ \o <<<<"start_time", "utc at setup">>, <<"end_time", "utc at setup">>>>]
           /\ IF SkipsStep(item, previous)
              THEN /\ call' = CallInfo("setup",
                                Skipped(<<"because previous test failed: ", items[previous].name>>))
                   /\ hist' = [hist EXCEPT ![idx].skipped_for = previous]
              ELSE /\ call' = CallInfo("setup", rest)
                   /\ hist' = [hist EXCEPT ![idx].failed = (rest = Failed)]
    /\ UNCHANGED <<config, items, idx, pc, previousfailed,
                   resolverVars, tokenVars, loaderVars, hookVars>>

\* The host runs the test function.
RunCall(outcome) ==
    /\ pc = "call" /\ call = NoCall
    /\ call' = CallInfo("call", outcome)
    /\ hist' = [hist EXCEPT ![idx].executed = TRUE,
                             ![idx].failed = (outcome = Failed)]
    /\ UNCHANGED <<config, items, idx, pc, previousfailed, user_properties,
                   resolverVars, tokenVars, loaderVars, hookVars>>

\* pytest_runtest_teardown (lines 224-243), the last of the teardown hooks: it
\* is reached when the teardown hooks before it raise nothing.
pytest_runtest_teardown(before) ==
    /\ pc = "teardown" /\ call = NoCall
    /\ call' = CallInfo("teardown", before)
    /\ user_properties' =
          IF before = NoExcinfo
          THEN [user_properties EXCEPT ![idx] = SetEndTime(@, "utc at teardown")]
          ELSE user_properties
    /\ hist' = [hist EXCEPT ![idx].failed = @ \/ before = Failed]
    /\ UNCHANGED <<config, items, idx, pc, previousfailed,
                   resolverVars, tokenVars, loaderVars, hookVars>>

\* pytest_runtest_makereport (lines 291-302), and the host's next phase
pytest_runtest_makereport ==
    /\ call # NoCall
    /\ previousfailed' =
          IF MarksParent(items[idx], call)
          THEN [previousfailed EXCEPT ![items[idx].parent] = idx]
          ELSE previousfailed
    /\ call' = NoCall
    /\ pc' = CASE call.when = "setup" ->
                    IF call.excinfo = NoExcinfo THEN "call" ELSE "teardown"
                [] call.when = "call" -> "teardown"
                [] OTHER -> "setup"
    /\ idx' = IF call.when = "teardown" THEN idx + 1 ELSE idx
    /\ UNCHANGED <<config, items, user_properties, hist,
                   resolverVars, tokenVars, loaderVars, hookVars>>

NextSteps ==
    \/ pytest_collection_modifyitems
    \/ \E rest \in {NoExcinfo, Skipped(<<"unconditional skip">>), Failed} :
          pytest_runtest_setup(rest)
    \/ \E outcome \in {NoExcinfo, Skipped(<<"not today">>), Failed} : RunCall(outcome)
    \/ \E before \in {NoExcinfo, Failed} : pytest_runtest_teardown(before)
    \/ pytest_runtest_makereport

SpecSteps == InitSteps /\ [][NextSteps]_vars

(***************************************************************************)
(* Properties of the resolver (SpecResolver).                              *)
(***************************************************************************)
Cli == config[option_name].cli
Ini == config[option_name].ini

\* C1, as stated: for every option name, when both a CLI value and an ini
\* value are present, the resolver returns the CLI value.
C1_CliWheneverPresent ==
    (resolved.done /\ Cli.given /\ Ini.given)
        => (resolved.raised = "none" /\ resolved.value = Cli.val)

\* C1, amended: for every option name, when both a CLI value and an ini value
\* are present and the CLI value is not empty, the resolver returns the CLI
\* value; with an empty CLI value it returns the ini value.
C1_CliWhenNotEmpty ==
    (resolved.done /\ Cli.given /\ Ini.given)
        => /\ resolved.raised = "none"
           /\ resolved.value = IF Truthy(Cli.val) THEN Cli.val ELSE Ini.val

C1_Witness ==
    /\ resolved.done /\ Cli.given /\ Ini.given
    /\ Truthy(Cli.val) /\ Truthy(Ini.val) /\ Ini.val # Cli.val
    /\ resolved.value = Cli.val

\* C2: for every option name absent from both the CLI and the ini file,
\* registered or not, the resolver raises nothing and returns a falsy value
\* (None, False or the empty string).
C2_AbsentIsFalsy ==
    (resolved.done /\ ~Cli.given /\ ~Ini.given)
        => /\ resolved.raised = "none"
           /\ resolved.value \in {PyNone, PyFalse, PyStr("")}

C2_Witness ==
    /\ resolved.done /\ ~Cli.reg /\ ~Ini.reg
    /\ resolved.raised = "none" /\ resolved.value = PyNone

(***************************************************************************)
(* Properties of the loader (SpecLoader).                                  *)
(***************************************************************************)
Names(msg, piece) == \E n \in DOMAIN msg : msg[n] = piece

LoadFails == disk.exc # "none" \/ SchemaError(disk.doc) # ""
Cause     == IF disk.exc # "none" THEN disk.cause ELSE SchemaError(disk.doc)

\* C3, as stated: on each of the three failure kinds the loader ends the
\* process with exit code 1 and a message naming the file and the underlying
\* cause, and returns no mapping; on success it returns the parsed mapping.
C3_ExitNamesFileAndCause ==
    loaded.done =>
        IF LoadFails
        THEN /\ loaded.exited /\ loaded.returncode = 1
             /\ Names(loaded.msg, config_file)
             /\ Names(loaded.msg, Cause)
        ELSE ~loaded.exited /\ loaded.value = disk.doc

\* C3, amended: on each of the three failure kinds the loader ends the process
\* with exit code 1 and a message naming the file, and naming the underlying
\* cause when the content is not valid JSON or violates the schema (not when
\* the file cannot be read), and returns no mapping; on success it returns the
\* parsed mapping.
C3_ExitNamesFile ==
    loaded.done =>
        IF LoadFails
        THEN /\ loaded.exited /\ loaded.returncode = 1
             /\ Names(loaded.msg, config_file)
             /\ disk.exc # "OSError" => Names(loaded.msg, Cause)
        ELSE ~loaded.exited /\ loaded.value = disk.doc

C3_Witness ==
    /\ loaded.done /\ loaded.exited /\ loaded.returncode = 1
    /\ disk.exc = "none"
    /\ "environment_variables" \notin DOMAIN disk.doc.members
    /\ disk.doc.type = "object"

(***************************************************************************)
(* Properties of the credential check (SpecToken).                         *)
(***************************************************************************)
\* C4: for every credential string, the check returns the empty string if the
\* string is empty or holds a character outside a-z, A-Z, 0-9 at any position,
\* the last included, and the string itself otherwise.
C4_OnlyAlphanumericPasses ==
    validated.done =>
        validated.value =
            IF token # <<>> /\ \A n \in DOMAIN token : token[n] \in AlnumClass
            THEN token ELSE <<>>

(***************************************************************************)
(* Properties of the session hooks (Spec).                                 *)
(***************************************************************************)
\* The option has a set value on the command line or in the ini file.
IsSet(name) ==
    \/ config[name].cli.given /\ Truthy(config[name].cli.val)
    \/ config[name].ini.given /\ Truthy(config[name].ini.val)

ExactlyOneSet == IsSet("zigzag") # IsSet("qtest-project-id")
BothSet       == IsSet("zigzag") /\ IsSet("qtest-project-id")

HoldsFailurePair(e) ==
    /\ Len(SESSION_MESSAGES) = 2
    /\ SESSION_MESSAGES[1] = <<"The ZigZag upload was not successful">>
    /\ Names(SESSION_MESSAGES[2], e.text)
    /\ \A n \in 1..2 : SESSION_MESSAGES[n] # <<"ZigZag upload was successful!">>

\* C5, as stated: any exception raised in the upload step of the finish hook
\* is caught in the hook; the buffer then holds the failure notice and a
\* message with the error text, and no success message.
C5_AnyExceptionCaught ==
    finish.exc # NoExc
        => (finish.state = "returned" /\ HoldsFailurePair(finish.exc))

\* C5, amended: any exception raised in the upload step that derives from
\* Exception (so not KeyboardInterrupt, SystemExit or another bare
\* BaseException) is caught in the hook; the buffer then holds the failure
\* notice and a message with the error text, and no success message.
C5_ExceptionCaught ==
    (finish.exc # NoExc /\ finish.exc.base = "Exception")
        => (finish.state = "returned" /\ HoldsFailurePair(finish.exc))

C5_Witness ==
    /\ finish.exc = Boom /\ finish.uploads = 1
    /\ finish.state = "returned" /\ HoldsFailurePair(Boom)

\* C6: when exactly one of the two upload options has a set value, configure
\* emits the mismatch warning, and the finish hook does not use the upload
\* library and leaves the buffer empty; when both or neither are set,
\* configure emits no warning.
C6_MismatchWarnsAndSkipsUpload ==
    session.started =>
        /\ warned = IF ExactlyOneSet THEN <<ZZ_WARN_MESSAGE>> ELSE <<>>
        /\ (ExactlyOneSet /\ finish.state # "none")
              => /\ finish.state = "returned"
                 /\ finish.constructed = <<>> /\ finish.uploads = 0
                 /\ SESSION_MESSAGES = <<>>

C6_Witness ==
    /\ session.started /\ ExactlyOneSet /\ finish.state = "returned"
    /\ session.junitxml /\ session.xml = "junit.xml" /\ session.environ.set
    /\ finish.drained # <<>>
    /\ warned = <<ZZ_WARN_MESSAGE>>

ValidCredential ==
    /\ session.environ.set
    /\ session.environ.value # <<>>
    /\ \A n \in DOMAIN session.environ.value : session.environ.value[n] \in AlnumClass

UploadReturned == finish.state = "returned" /\ finish.uploads = 1 /\ finish.exc = NoExc

\* C7: when both options are set, a valid credential is in the environment and
\* the upload call returns job id j, the finish hook leaves the buffer holding
\* the success notice and then 'Queue Job ID: j', and the terminal summary that
\* follows writes exactly these, one write_line each, in this order.
C7_SuccessReported ==
    (BothSet /\ ValidCredential /\ UploadReturned)
        => /\ SESSION_MESSAGES = <<<<"ZigZag upload was successful!">>,
                                   <<"Queue Job ID: ", finish.job>>>>
           /\ written.done => written.lines = <<<<"ZigZag upload was successful!">>,
                                                <<"Queue Job ID: ", finish.job>>>>

C7_Witness ==
    /\ BothSet /\ ValidCredential /\ UploadReturned
    /\ finish.job = "99" /\ written.done /\ Len(written.lines) = 2

\* C10: whenever a finish hook has returned, the buffer holds the messages that
\* invocation appended and nothing else: it is empty, or the success pair, or
\* the failure pair; nothing of an earlier invocation remains.
C10_OnlyLatestMessages ==
    finish.state = "returned" =>
        /\ SESSION_MESSAGES = finish.appended
        /\ \/ SESSION_MESSAGES = <<>>
           \/ \E j \in JobIds : SESSION_MESSAGES = <<<<"ZigZag upload was successful!">>,
                                                      <<"Queue Job ID: ", j>>>>
           \/ HoldsFailurePair(finish.exc)

C10_Witness ==
    /\ finish.state = "returned"
    /\ finish.drained = <<<<"ZigZag upload was successful!">>, <<"Queue Job ID: ", "99">>>>
    /\ HoldsFailurePair(NoTokenError)

(***************************************************************************)
(* Properties of the stepped test cases (SpecSteps).                       *)
(***************************************************************************)
IsStep(n)      == \E m \in DOMAIN items[n].marks : items[n].marks[m].name = TEST_STEPS_MARK
SameGroup(m, n) == IsStep(m) /\ IsStep(n) /\ items[m].parent = items[n].parent

\* The setup hook of item n has run.
SetupRan(n) == n < idx \/ (n = idx /\ (pc # "setup" \/ call # NoCall))

PlainName(n) == ~InName("setup", items[n]) /\ ~InName("teardown", items[n])

\* C8, as stated: once a step of a group has failed, every later step of the
\* group, whatever its name, is skipped at setup with a reason and not executed.
C8_LaterStepsSkipped ==
    \A m, n \in 1..NumItems :
        (m < n /\ SameGroup(m, n) /\ hist[m].failed /\ SetupRan(n))
            => /\ ~hist[n].executed
               /\ (n = idx /\ call.when = "setup") => call.excinfo.type = "Skipped"

\* C8, amended: once a step of a group has failed, every later step of the
\* group whose name holds neither 'setup' nor 'teardown' is skipped at setup
\* with a reason and not executed.
C8_LaterPlainStepsSkipped ==
    \A m, n \in 1..NumItems :
        (m < n /\ SameGroup(m, n) /\ hist[m].failed /\ SetupRan(n) /\ PlainName(n))
            => (hist[n].skipped_for # 0 /\ ~hist[n].executed)

C8_Witness ==
    \E m, n \in 1..NumItems :
        /\ m + 1 < n /\ SameGroup(m, n) /\ hist[m].failed /\ SetupRan(n) /\ PlainName(n)
        /\ hist[m].executed
        /\ hist[n].skipped_for # 0 /\ call = NoCall /\ pc = "teardown"

\* C9: the parent of a group is marked only by a step that failed, so a step is
\* skipped by the setup hook only if an earlier step of its group failed, and
\* the step its skip reason names is one that failed.
C9_MarkedOnlyByFailure ==
    /\ \A p \in Parents : previousfailed[p] # 0 => hist[previousfailed[p]].failed
    /\ \A n \in 1..NumItems :
          hist[n].skipped_for # 0
              => /\ hist[hist[n].skipped_for].failed
                 /\ \E m \in 1..(n - 1) : SameGroup(m, n) /\ hist[m].failed

====
